---- MODULE Spec2Model ----
(***************************************************************************)
(* Model of numerox/prediction.py, class Prediction: the merge semantics   *)
(* of append_arrays / append_prediction / __setitem__ on the shared        *)
(* DataFrame, the introspection properties, dominance_df and originality.  *)
(*                                                                         *)
(* A DataFrame is a record [cols, rows]: cols is the sequence of column    *)
(* labels, rows the sequence of [id, cells] with cells aligned on cols.    *)
(* DataFrames are heap objects: a Prediction holds a reference (self.df),  *)
(* so that two Predictions may hold the same DataFrame.                    *)
(***************************************************************************)
EXTENDS Integers, Sequences, FiniteSets, TLC

VARIABLES heap, ref, last, nops, inserted, mpe, dom, otab, orig

vars == <<heap, ref, last, nops, inserted, mpe, dom, otab, orig>>

tableVars == <<heap, ref, last, nops, inserted>>
analyticsVars == <<mpe, dom, otab, orig>>

(* Bounds of the model. *)
MaxId == 3
MaxLen == 2
MaxOps == 2
MaxModels == 3
MaxEras == 2
MaxSubmitted == 2

Ids == 1..MaxId
Names == {"m1", "m2"}
Tables == {"t"}
Objs == Tables \cup {"b"}
Addrs == 1..(Cardinality(Objs) + 1)

(* self.df = None; a missing cell (numpy NaN). *)
None == 0
NaN == 0

EmptyDf == [cols |-> <<>>, rows |-> <<>>]

(* The cell written at position i of the call number k, when it is not     *)
(* missing.  The merge code never computes with a cell, it only moves it   *)
(* and tests it for NaN, so pairwise distinct cells are the general case.  *)
Fresh(k, i) == k * (MaxLen + 1) + i

(* The ids of a batch: a non-empty sequence, an identifier may repeat. *)
IdSeqs == UNION {[1..n -> Ids] : n \in 1..MaxLen}

(* pd.DataFrame(data={name: yhat}, index=ids) *)
DataFrame(name, ids, yhat) ==
    [cols |-> <<name>>,
     rows |-> [i \in 1..Len(ids) |-> [id |-> ids[i], cells |-> <<yhat[i]>>]]]

Yhat(ids, miss, k) ==
    [i \in 1..Len(ids) |-> IF i \in miss THEN NaN ELSE Fresh(k, i)]

----------------------------------------------------------------------------
(* Helpers on DataFrames and Series. A Series is a sequence of [id, val]. *)

Range(s) == {s[i] : i \in 1..Len(s)}

Index(df) == {df.rows[i].id : i \in 1..Len(df.rows)}

SeriesIndex(s) == {s[i].id : i \in 1..Len(s)}

ColPos(df, name) == CHOOSE j \in 1..Len(df.cols) : df.cols[j] = name

(* self.df[name] *)
Column(df, name) ==
    [i \in 1..Len(df.rows) |->
        [id |-> df.rows[i].id, val |-> df.rows[i].cells[ColPos(df, name)]]]

(* Series.dropna() *)
dropna(s) == LET Keep(e) == e.val # NaN IN SelectSeq(s, Keep)

RECURSIVE SortedSeq(_)
SortedSeq(S) ==
    IF S = {} THEN <<>>
    ELSE LET m == CHOOSE x \in S : \A y \in S : x <= y
         IN <<m>> \o SortedSeq(S \ {m})

RECURSIVE Flatten(_)
Flatten(ss) == IF ss = <<>> THEN <<>> ELSE Head(ss) \o Flatten(Tail(ss))

NaNs(n) == [j \in 1..n |-> NaN]

RowsAt(df, k) == LET Has(r) == r.id = k IN SelectSeq(df.rows, Has)

(* The rows of an outer join for one key: the pairs of a left and a right  *)
(* row with that key, or the rows of one side padded with NaN.             *)
JoinKey(L, R, k) ==
    LET lr == RowsAt(L, k)
        rr == RowsAt(R, k)
    IN IF lr = <<>>
       THEN [i \in 1..Len(rr) |->
                [id |-> k, cells |-> NaNs(Len(L.cols)) \o rr[i].cells]]
       ELSE IF rr = <<>>
       THEN [i \in 1..Len(lr) |->
                [id |-> k, cells |-> lr[i].cells \o NaNs(Len(R.cols))]]
       ELSE [i \in 1..(Len(lr) * Len(rr)) |->
                [id |-> k,
                 cells |-> lr[((i - 1) \div Len(rr)) + 1].cells
                           \o rr[((i - 1) % Len(rr)) + 1].cells]]

(* The merge as a left join: the identifiers only the right frame has are  *)
(* lost.                                                                   *)
MergeLeftJoin(L, R) ==
    LET keys == SortedSeq(Index(L))
    IN [cols |-> L.cols \o R.cols,
        rows |-> Flatten([i \in 1..Len(keys) |-> JoinKey(L, R, keys[i])])]

(* pd.merge(L, R, how='outer', left_index=True, right_index=True) *)
MergeOuter(L, R) ==
    LET keys == SortedSeq(Index(L) \cup Index(R))
    IN [cols |-> L.cols \o R.cols,
        rows |-> Flatten([i \in 1..Len(keys) |-> JoinKey(L, R, keys[i])])]

(* pd.concat([s, y], join='outer', ignore_index=False): the values of s    *)
(* followed by those of y.                                                 *)
concat(s, y) == s \o y

(* The concatenation without verify_integrity. *)
VerifyIntegrityOff(c) == TRUE

(* verify_integrity=True: the concatenated index holds no identifier twice *)
VerifyIntegrity(c) ==
    \A i, j \in 1..Len(c) : c[i].id = c[j].id => i = j

SeriesAt(s, k) == (CHOOSE e \in Range(s) : e.id = k).val

(* pd.merge(L, s.to_frame(name), how='outer', on=name, left_index=True,    *)
(* right_index=True), as the pandas of the repository's time (0.2x)        *)
(* computes it: the rows are joined on the index; the column `name`,       *)
(* being the key `on`, is dropped from the right frame and kept from the   *)
(* left one, and is taken from the right frame only on the rows the left   *)
(* frame does not have.                                                    *)
KeyRows(L, s, name, k) ==
    LET lr == RowsAt(L, k)
    IN IF lr # <<>> THEN lr
       ELSE << [id |-> k,
                cells |-> [j \in 1..Len(L.cols) |->
                              IF L.cols[j] = name THEN SeriesAt(s, k)
                              ELSE NaN]] >>

MergeOn(L, s, name) ==
    LET keys == SortedSeq(Index(L) \cup SeriesIndex(s))
    IN [cols |-> L.cols,
        rows |-> Flatten([i \in 1..Len(keys) |-> KeyRows(L, s, name, keys[i])])]

----------------------------------------------------------------------------
(* The heap. *)

(* The lowest address no object of the set os refers to under r. *)
FreeAddr(r, os) ==
    CHOOSE a \in Addrs :
        /\ \A o \in os : r[o] # a
        /\ \A c \in Addrs : (\A o \in os : r[o] # c) => a <= c

(* Unreferenced DataFrames are collected. *)
Collect(h, r) ==
    [a \in Addrs |-> IF \E o \in Objs : r[o] = a THEN h[a] ELSE EmptyDf]

DfOf(o) == heap[ref[o]]

----------------------------------------------------------------------------
(* Prediction: introspection. *)

(* Prediction.names *)
names(o) == IF ref[o] = None THEN <<>> ELSE DfOf(o).cols

(* Prediction.__contains__: `name in self.df`; on self.df = None the       *)
(* operator `in` raises TypeError.                                         *)
Contains(h, r, o, name) ==
    IF r[o] = None
    THEN [raised |-> "TypeError", ret |-> FALSE]
    ELSE [raised |-> "", ret |-> name \in Range(h[r[o]].cols)]

contains(o, name) == Contains(heap, ref, o, name)

(* Prediction.size *)
size(o) ==
    IF ref[o] = None THEN 0 ELSE Len(DfOf(o).rows) * Len(DfOf(o).cols)

(* Prediction.shape *)
shape(o) ==
    IF ref[o] = None THEN <<>>
    ELSE <<Len(DfOf(o).rows), Len(DfOf(o).cols)>>

(* Prediction.__len__ *)
len(o) == IF ref[o] = None THEN 0 ELSE Len(DfOf(o).rows)

----------------------------------------------------------------------------
(* Prediction.append_prediction, as a function of the heap h, the          *)
(* references r, the receiver t and the address pa of prediction.df.       *)

Outcome(result, case, h, r) ==
    [result |-> result, case |-> case, heap |-> h, ref |-> r]

(* self.df = df, for a DataFrame the call has built. *)
Store(h, r, t, df) ==
    LET a == FreeAddr(r, Objs \ {t})
        r2 == [r EXCEPT ![t] = a]
    IN [heap |-> Collect([h EXCEPT ![a] = df], r2), ref |-> r2]

AppendPrediction(h, r, t, pa) ==
    IF pa = None THEN Outcome("AttributeError", "none", h, r)
    ELSE IF Len(h[pa].cols) # 1
    THEN Outcome("NotImplementedError", "none", h, r)
    ELSE
      LET P == h[pa]
          name == P.cols[1]
      IN IF r[t] = None
         THEN Outcome("ok", "empty", h, [r EXCEPT ![t] = pa])
         ELSE IF ~Contains(h, r, t, name).ret
         THEN LET st == Store(h, r, t, MergeOuter(h[r[t]], P))
              IN Outcome("ok", "new", st.heap, st.ref)
         ELSE LET y == dropna(Column(h[r[t]], name))
                  s == dropna(Column(P, name))
                  c == concat(s, y)
              IN IF ~VerifyIntegrity(c)
                 THEN Outcome("ValueErrorOverlap", "again", h, r)
                 ELSE LET st == Store(h, r, t, MergeOn(h[r[t]], c, name))
                      IN Outcome("ok", "again", st.heap, st.ref)

----------------------------------------------------------------------------
(* Prediction.dominance_df.  metrics_per_era is given: mpe[col][e][j] is   *)
(* the value of the metric col in the era e for the j-th model, that is    *)
(* the cell (e, j) of mpe.pivot(index='era', columns='model', values=col). *)
(* A mean is kept as the exact fraction num / den.                         *)

Columns == <<"logloss", "auc", "acc">>

RECURSIVE Sum(_, _)
Sum(f, n) == IF n = 0 THEN 0 ELSE f[n] + Sum(f, n - 1)

Bool2Int(x) == IF x THEN 1 ELSE 0

(* The count with <= and >= for < and >: a model bests itself. *)
CountBestedOrEqual(col, row, j) ==
    Sum([k \in 1..Len(row) |->
            Bool2Int(IF col = "logloss" THEN row[j] <= row[k]
                     ELSE row[j] >= row[k])],
        Len(row))

(* (a[:, j].reshape(-1, 1) < a).sum(axis=1), or with > for auc and acc, on *)
(* the row e of a: the comparisons of a[e, j] with every column of a.      *)
CountBested(col, row, j) ==
    Sum([k \in 1..Len(row) |->
            Bool2Int(IF col = "logloss" THEN row[j] < row[k]
                     ELSE row[j] > row[k])],
        Len(row))

DominanceColumn(col, a) ==
    LET nm == Len(a[1])
        n == nm - 1
    IN [j \in 1..nm |->
          [num |-> Sum([e \in 1..Len(a) |-> CountBested(col, a[e], j)],
                       Len(a)),
           den |-> n * Len(a)]]

DominanceDf(m) ==
    IF Len(m["logloss"][1]) - 1 = 0
    THEN [result |-> "ValueError", df |-> <<>>]
    ELSE [result |-> "ok",
          df |-> [c \in Range(Columns) |-> DominanceColumn(c, m[c])]]

NoMetrics == [c \in Range(Columns) |-> <<>>]
NoDominance == [result |-> "none", df |-> <<>>]

(* The values of a metric in one era, for n models: dominance_df only      *)
(* compares them, so a row is given by the ranks 0..n-1 of the models, all *)
(* distinct or all tied.                                                   *)
MetricRows(n) ==
    {r \in [1..n -> 0..(n - 1)] :
        \/ \A j, k \in 1..n : r[j] = r[k] => j = k
        \/ \A j \in 1..n : r[j] = 0}

Matrices ==
    UNION {[1..e -> MetricRows(n)] : e \in 1..MaxEras, n \in 1..MaxModels}

(* prediction.dominance_df(data) *)
Dominance ==
    /\ dom.result = "none"
    /\ dom' = DominanceDf(mpe)
    /\ UNCHANGED <<mpe, otab, orig>>
    /\ UNCHANGED tableVars

----------------------------------------------------------------------------
(* Prediction.originality.  pearsonr and ks_2samp are given: for a model   *)
(* m of the table and a submitted model s, otab.pearson[<<m, s>>] and      *)
(* otab.ks[<<m, s>>] are their values on the two columns, in thousandths.  *)

(* 0.95 and 0.03, in thousandths. *)
CorrMax == 950
KsMin == 30

ModelNames == <<"m1", "m2", "m3", "m4", "m5">>

(* The loop body with >= 0.95 for > 0.95. *)
OriginalityStepAtThreshold(flags, p, k) ==
    [corr |-> IF flags.corr /\ p >= CorrMax THEN FALSE ELSE flags.corr,
     ks |-> IF flags.ks /\ k <= KsMin THEN FALSE ELSE flags.ks]

(* One pass of the loop body on the flags. *)
OriginalityStep(flags, p, k) ==
    [corr |-> IF flags.corr /\ p > CorrMax THEN FALSE ELSE flags.corr,
     ks |-> IF flags.ks /\ k <= KsMin THEN FALSE ELSE flags.ks]

RECURSIVE OriginalityLoop(_, _, _, _, _)
OriginalityLoop(t, sub, m, i, flags) ==
    IF i > Len(sub) THEN flags
    ELSE OriginalityLoop(t, sub, m, i + 1,
             OriginalityStep(flags, t.pearson[<<m, sub[i]>>],
                             t.ks[<<m, sub[i]>>]))

Originality(t, sub) ==
    IF \E i \in 1..Len(sub) : sub[i] \notin Range(t.names)
    THEN [result |-> "KeyError", df |-> <<>>]
    ELSE LET NotSubmitted(m) == m \notin Range(sub)
             rows == SelectSeq(t.names, NotSubmitted)
         IN [result |-> "ok",
             df |-> [i \in 1..Len(rows) |->
                       LET f == OriginalityLoop(t, sub, rows[i], 1,
                                    [corr |-> TRUE, ks |-> TRUE])
                       IN [name |-> rows[i], corr |-> f.corr, ks |-> f.ks,
                           original |-> f.corr /\ f.ks]]]

NoTable == [names |-> <<>>, sub |-> <<>>, pearson |-> <<>>, ks |-> <<>>]
NoOriginality == [result |-> "none", df |-> <<>>]

(* The statistics at and just above the thresholds. *)
PearsonValues == {CorrMax, CorrMax + 1}
KsValues == {KsMin, KsMin + 1}

(* prediction.originality(submitted_names) *)
DoOriginality ==
    /\ orig.result = "none"
    /\ orig' = Originality(otab, otab.sub)
    /\ UNCHANGED <<mpe, dom, otab>>
    /\ UNCHANGED tableVars

----------------------------------------------------------------------------
(* The calls. *)

ValueOf(h, a) == IF a = None THEN EmptyDf ELSE h[a]

Record(op, t, prd, name, res, batch, entry) ==
    /\ heap' = Collect(res.heap, res.ref)
    /\ ref' = res.ref
    /\ nops' = nops + 1
    /\ last' = [op |-> op, tbl |-> t, prd |-> prd, name |-> name,
                case |-> res.case,
                result |-> res.result, pre |-> ValueOf(heap, ref[t]),
                preNone |-> ref[t] = None, entry |-> entry,
                batch |-> batch]
    /\ inserted' = IF res.result = "ok"
                   THEN [inserted EXCEPT ![t] = @ \cup Index(batch)]
                   ELSE inserted
    /\ UNCHANGED analyticsVars

(* t.append_arrays(ids, yhat, name) *)
AppendArrays(t, ids, miss, name) ==
    /\ nops < MaxOps
    /\ LET pa == FreeAddr(ref, Objs)
           df == DataFrame(name, ids, Yhat(ids, miss, nops + 1))
           h1 == [heap EXCEPT ![pa] = df]
       IN Record("append_arrays", t, "tmp", name,
                 AppendPrediction(h1, ref, t, pa), df, ValueOf(heap, ref[t]))

(* t.append_prediction(p) *)
AppendPred(t, p) ==
    /\ nops < MaxOps
    /\ LET batch == ValueOf(heap, ref[p])
           name == IF Len(batch.cols) = 1 THEN batch.cols[1] ELSE ""
       IN Record("append_prediction", t, p, name,
                 AppendPrediction(heap, ref, t, ref[p]), batch,
                 ValueOf(heap, ref[t]))

(* t[name] = p *)
SetItem(t, name, p) ==
    /\ nops < MaxOps
    /\ IF ref[p] = None
       THEN Record("setitem", t, p, name,
                   Outcome("AttributeError", "none", heap, ref), EmptyDf,
                   ValueOf(heap, ref[t]))
       ELSE IF Len(DfOf(p).cols) # 1
       THEN Record("setitem", t, p, name,
                   Outcome("ValueError", "none", heap, ref), DfOf(p),
                   ValueOf(heap, ref[t]))
       ELSE LET h1 == [heap EXCEPT ![ref[p]].cols = <<name>>]
            IN Record("setitem", t, p, name,
                      AppendPrediction(h1, ref, t, ref[p]), h1[ref[p]],
                      ValueOf(h1, ref[t]))

NoCall ==
    [op |-> "init", tbl |-> "t", prd |-> "tmp", name |-> "", case |-> "none",
     result |-> "ok", pre |-> EmptyDf, preNone |-> TRUE, entry |-> EmptyDf,
     batch |-> EmptyDf]

(* t = Prediction(); b = Prediction(pd.DataFrame(data={name: yhat},        *)
(* index=ids))                                                             *)
Init ==
    /\ \E ids \in IdSeqs, miss \in SUBSET (1..MaxLen) :
          /\ miss \subseteq 1..Len(ids)
          /\ heap = [a \in Addrs |->
                       IF a = 1 THEN DataFrame("m1", ids, Yhat(ids, miss, 0))
                       ELSE EmptyDf]
    /\ ref = [o \in Objs |-> IF o = "b" THEN 1 ELSE None]
    /\ last = NoCall
    /\ nops = 0
    /\ inserted = [t \in Tables |-> {}]
    /\ mpe = NoMetrics
    /\ dom = NoDominance
    /\ otab = NoTable
    /\ orig = NoOriginality

DoAppendArrays ==
    \E t \in Tables, ids \in IdSeqs, miss \in SUBSET (1..MaxLen),
       name \in Names :
        miss \subseteq 1..Len(ids) /\ AppendArrays(t, ids, miss, name)

DoAppendPred == \E t \in Tables, p \in Objs : AppendPred(t, p)

DoSetItem == \E t \in Tables, name \in Names, p \in Objs : SetItem(t, name, p)

Next == DoAppendArrays \/ DoAppendPred \/ DoSetItem

Spec == Init /\ [][Next]_vars

(* The specification of dominance_df: a table of MaxModels models at most  *)
(* over MaxEras eras at most, the three metrics holding the same values.   *)
InitDom ==
    /\ \E a \in Matrices : mpe = [c \in Range(Columns) |-> a]
    /\ dom = NoDominance
    /\ otab = NoTable
    /\ orig = NoOriginality
    /\ heap = [a \in Addrs |-> EmptyDf]
    /\ ref = [o \in Objs |-> None]
    /\ last = NoCall
    /\ nops = 0
    /\ inserted = [t \in Tables |-> {}]

NextDom == Dominance

SpecDom == InitDom /\ [][NextDom]_vars

(* The specification of originality: a table of the models m1..mk and the  *)
(* sequence of submitted names, with the statistics of every pair of a     *)
(* model and a submitted model.                                            *)
SubmittedSeqs ==
    UNION {[1..n -> {ModelNames[i] : i \in 1..(MaxModels + 1)}] :
              n \in 0..MaxSubmitted}

InitOrig ==
    /\ \E k \in 1..MaxModels, sub \in SubmittedSeqs :
          LET nms == SubSeq(ModelNames, 1, k)
              pairs == (Range(nms) \ Range(sub)) \X Range(sub)
          IN \E p \in [pairs -> PearsonValues], q \in [pairs -> KsValues] :
                otab = [names |-> nms, sub |-> sub, pearson |-> p, ks |-> q]
    /\ orig = NoOriginality
    /\ mpe = NoMetrics
    /\ dom = NoDominance
    /\ heap = [a \in Addrs |-> EmptyDf]
    /\ ref = [o \in Objs |-> None]
    /\ last = NoCall
    /\ nops = 0
    /\ inserted = [t \in Tables |-> {}]

NextOrig == DoOriginality

SpecOrig == InitOrig /\ [][NextOrig]_vars

----------------------------------------------------------------------------
(* Vocabulary of the properties.  last.pre is the table before the call,   *)
(* last.entry the table when append_prediction is entered, last.batch the  *)
(* DataFrame of the prediction that append_prediction is given.            *)

Post == ValueOf(heap, ref[last.tbl])

(* The cells a column holds on the rows of one identifier. *)
Cells(df, name, k) ==
    {RowsAt(df, k)[i].cells[ColPos(df, name)] : i \in 1..Len(RowsAt(df, k))}

(* The (identifier, value) pairs of the non-missing cells of a column. *)
NonMissing(df, name) == Range(dropna(Column(df, name)))

Inserting ==
    /\ last.op \in {"append_arrays", "append_prediction", "setitem"}
    /\ Len(last.batch.cols) = 1

Overlap(df, name, batch) ==
    \E x \in NonMissing(df, name), y \in NonMissing(batch, batch.cols[1]) :
        x.id = y.id

C2_ReinsertFillsColumn ==
    (/\ Inserting
     /\ ~last.preNone
     /\ last.batch.cols[1] \in Range(last.entry.cols)
     /\ ~Overlap(last.entry, last.batch.cols[1], last.batch))
    => /\ last.result = "ok"
       /\ NonMissing(Post, last.batch.cols[1]) =
             NonMissing(last.entry, last.batch.cols[1])
             \cup NonMissing(last.batch, last.batch.cols[1])

C4_IndexIsUnionOfBatches ==
    \A t \in Tables : Index(ValueOf(heap, ref[t])) = inserted[t]

(* C5: no identifier is a row of a table more than once. *)
C5_NoIdentifierTwice ==
    \A t \in Tables, k \in Ids : Len(RowsAt(ValueOf(heap, ref[t]), k)) <= 1

(* C6: on a table without data names is empty, size and len are 0 and      *)
(* shape is (0, 0); in every state shape is (len, number of names).        *)
C6_EmptyIntrospection ==
    \A t \in Tables :
        /\ ref[t] = None =>
              /\ names(t) = <<>>
              /\ size(t) = 0
              /\ len(t) = 0
              /\ shape(t) = <<0, 0>>
        /\ shape(t) = <<len(t), Len(names(t))>>

(* C7: a call that inserts the batch object b into a table, under any      *)
(* name, does not rename or remove a column the table held before the      *)
(* call: the names before the call are a prefix of the names after it.     *)
C7_BatchNotRetained ==
    (last.op \in {"append_prediction", "setitem"} /\ last.prd = "b")
    => /\ Len(last.pre.cols) <= Len(Post.cols)
       /\ SubSeq(Post.cols, 1, Len(last.pre.cols)) = last.pre.cols

(* C8: contains(name) returns a boolean in every state, true exactly when  *)
(* name is an element of names().                                          *)
C8_ContainsTotal ==
    \A t \in Tables, n \in Names :
        /\ contains(t, n).raised = ""
        /\ contains(t, n).ret = (n \in Range(names(t)))

(* The models other than j that the model j strictly beats in one era. *)
Beaten(col, row, j) ==
    {k \in (1..Len(row)) \ {j} :
        IF col = "logloss" THEN row[j] < row[k] ELSE row[j] > row[k]}

NoTies(a) ==
    \A e \in 1..Len(a) : \A j, k \in 1..Len(a[e]) :
        a[e][j] = a[e][k] => j = k

(* C9: with two models or more and per-era values of a metric that are     *)
(* pairwise distinct within every era, the dominance of a model is the     *)
(* number of other models it strictly beats, divided by n - 1 and averaged *)
(* over the eras; the per-model counts of an era sum to n * (n - 1) / 2    *)
(* and the mean of the scores over the models is 1/2.                      *)
C9_DominanceFractionBested ==
    \A c \in Range(Columns) :
        (/\ dom.result # "none"
         /\ Len(mpe[c][1]) >= 2
         /\ NoTies(mpe[c]))
        => LET a == mpe[c]
               nm == Len(a[1])
               score == dom.df[c]
           IN /\ dom.result = "ok"
              /\ DOMAIN score = 1..nm
              /\ \A j \in 1..nm :
                    /\ score[j].den = (nm - 1) * Len(a)
                    /\ score[j].num =
                          Sum([e \in 1..Len(a) |->
                                  Cardinality(Beaten(c, a[e], j))], Len(a))
              /\ \A e \in 1..Len(a) :
                    2 * Sum([j \in 1..nm |->
                               Cardinality(Beaten(c, a[e], j))], nm)
                    = nm * (nm - 1)
              /\ 2 * Sum([j \in 1..nm |-> score[j].num], nm)
                    = nm * (nm - 1) * Len(a)

C9_Witness ==
    /\ dom.result = "ok"
    /\ Len(mpe["logloss"][1]) = 3
    /\ Len(mpe["logloss"]) = 2
    /\ NoTies(mpe["logloss"])
    /\ dom.df["logloss"][1].num = 3
    /\ dom.df["auc"][1].num = 1

(* C10: originality returns one row for each model of the table that is    *)
(* not submitted; its correlation flag is true iff pearson <= 0.95 against *)
(* every submitted model, its distribution flag iff ks > 0.03 against      *)
(* every submitted model, and original is the conjunction of the two,      *)
(* whatever the order of the submitted models.                             *)
C10_OriginalityFlags ==
    orig.result = "ok"
    => LET sub == Range(otab.sub)
           rest == Range(otab.names) \ sub
       IN /\ {orig.df[i].name : i \in 1..Len(orig.df)} = rest
          /\ Len(orig.df) = Cardinality(rest)
          /\ \A i \in 1..Len(orig.df) :
                LET row == orig.df[i]
                IN /\ row.corr =
                        (\A x \in sub : otab.pearson[<<row.name, x>>] <= CorrMax)
                   /\ row.ks =
                        (\A x \in sub : otab.ks[<<row.name, x>>] > KsMin)
                   /\ row.original = (row.corr /\ row.ks)

C10_Witness ==
    /\ orig.result = "ok"
    /\ Len(otab.sub) = 2
    /\ otab.sub[1] # otab.sub[2]
    /\ \E i \in 1..Len(orig.df) :
          /\ ~orig.df[i].corr
          /\ orig.df[i].ks
          /\ ~orig.df[i].original
          /\ otab.pearson[<<orig.df[i].name, otab.sub[1]>>] = CorrMax
          /\ otab.pearson[<<orig.df[i].name, otab.sub[2]>>] > CorrMax

====
